---- MODULE Spec2Model ----
(***************************************************************************)
(* A model of combine_filters.py: the line normalizer (normalize), the     *)
(* fingerprint (canonical_key), the fetcher (fetch) and the combiner       *)
(* (main).  A text is a sequence of one-character strings, so that every   *)
(* string operation of the program is computed character by character.     *)
(***************************************************************************)
EXTENDS Integers, Sequences, FiniteSets, TLC

VARIABLES
    pc,                \* position of main: "load", "overrides", "sources", "lines", "done"
    status,            \* "running", or how main ended: "wrote", "no_sources",
                       \* "write_error", "exception" (an exception left main)
    srcfile,           \* sources.txt on disk: [state, lines]
    custom_overrides,  \* the configured override rules (main, line 94)
    sources,           \* the loaded source list
    oi,                \* index of the next override
    si,                \* index of the next source
    pending,           \* raw lines of the current text still to process
    seen,              \* set of fingerprints
    out_lines,         \* the output lines assembled so far
    outfile,           \* combined-filters.txt on disk, as its lines
    stderr,            \* the diagnostics printed so far
    fetchlog,          \* history: one record per call of fetch, [url, kind, text]
    nline, n1, n2, npc,        \* normalize applied once and twice to one line
    obody, osep, ofrags, operm, res1, res2, opc   \* normalize applied to two option orderings

vars == <<pc, status, srcfile, custom_overrides, sources, oi, si, pending, seen,
          out_lines, outfile, stderr, fetchlog,
          nline, n1, n2, npc, obody, osep, ofrags, operm, res1, res2, opc>>

mainVars == <<pc, status, srcfile, custom_overrides, sources, oi, si, pending, seen,
              out_lines, outfile, stderr, fetchlog>>
normVars == <<nline, n1, n2, npc>>
optVars == <<obody, osep, ofrags, operm, res1, res2, opc>>

\* The variables of a specification that does not run are kept at rest.
IdleMain ==
    /\ pc = "idle" /\ status = "idle" /\ srcfile = <<>> /\ custom_overrides = <<>>
    /\ sources = <<>> /\ oi = 0 /\ si = 0 /\ pending = <<>> /\ seen = {}
    /\ out_lines = <<>> /\ outfile = <<>> /\ stderr = <<>> /\ fetchlog = <<>>

IdleNorm == nline = <<>> /\ n1 = <<>> /\ n2 = <<>> /\ npc = "idle"

IdleOpt ==
    /\ obody = <<>> /\ osep = <<>> /\ ofrags = <<>> /\ operm = <<>>
    /\ res1 = <<>> /\ res2 = <<>>
    /\ opc = "idle"

----------------------------------------------------------------------------
(* Characters and the string primitives of Python the program uses.        *)

\* Whitespace as str.strip(), str.split() and the regex class \s see it.
WS == {" ", "\t", "\n"}

\* ord(c) for the characters of the model's alphabet (ASCII).
CharCode(c) ==
    CASE c = "\t" -> 9   [] c = "\n" -> 10  [] c = " " -> 32  [] c = "!" -> 33
      [] c = "#" -> 35   [] c = "$" -> 36   [] c = "," -> 44  [] c = "-" -> 45
      [] c = "." -> 46   [] c = "0" -> 48   [] c = "1" -> 49  [] c = "2" -> 50
      [] c = "7" -> 55   [] c = ":" -> 58   [] c = "@" -> 64  [] c = "A" -> 65
      [] c = "B" -> 66   [] c = "[" -> 91   [] c = "^" -> 94  [] c = "a" -> 97
      [] c = "b" -> 98   [] c = "c" -> 99   [] c = "d" -> 100 [] c = "u" -> 117
      [] c = "v" -> 118  [] c = "x" -> 120  [] c = "|" -> 124

\* str.lower() on one character.
LowerChar(c) == IF c = "A" THEN "a" ELSE IF c = "B" THEN "b" ELSE c

Lower(s) == [i \in 1..Len(s) |-> LowerChar(s[i])]

RECURSIVE LStrip(_)
LStrip(s) == IF s # <<>> /\ Head(s) \in WS THEN LStrip(Tail(s)) ELSE s

RECURSIVE RStrip(_)
RStrip(s) ==
    IF s # <<>> /\ s[Len(s)] \in WS THEN RStrip(SubSeq(s, 1, Len(s) - 1)) ELSE s

\* str.strip()
Strip(s) == RStrip(LStrip(s))

\* str.rstrip('.'): every trailing dot goes.
RECURSIVE RStripDots(_)
RStripDots(s) ==
    IF s # <<>> /\ s[Len(s)] = "." THEN RStripDots(SubSeq(s, 1, Len(s) - 1)) ELSE s

\* str.startswith(p)
StartsWith(s, p) == Len(s) >= Len(p) /\ SubSeq(s, 1, Len(p)) = p

\* str.count(c) for a one-character c
Count(s, c) == Cardinality({i \in 1..Len(s) : s[i] = c})

\* str.split(): the maximal runs of non-whitespace characters, in order.
RECURSIVE Tokens(_)
Tokens(s) ==
    LET t == LStrip(s) IN
    IF t = <<>> THEN <<>>
    ELSE LET k == CHOOSE j \in 1..Len(t) :
                    /\ \A i \in 1..j : t[i] \notin WS
                    /\ (j = Len(t) \/ t[j + 1] \in WS)
         IN <<SubSeq(t, 1, k)>> \o Tokens(SubSeq(t, k + 1, Len(t)))

\* str.split(c): the pieces between the occurrences of c, empty pieces kept.
RECURSIVE SplitOn(_, _)
SplitOn(s, c) ==
    IF \A i \in 1..Len(s) : s[i] # c THEN <<s>>
    ELSE LET k == CHOOSE j \in 1..Len(s) : s[j] = c /\ \A i \in 1..(j - 1) : s[i] # c
         IN <<SubSeq(s, 1, k - 1)>> \o SplitOn(SubSeq(s, k + 1, Len(s)), c)

\* sep.join(parts)
RECURSIVE Join(_, _)
Join(parts, sep) ==
    IF parts = <<>> THEN <<>>
    ELSE IF Len(parts) = 1 THEN parts[1]
    ELSE parts[1] \o sep \o Join(Tail(parts), sep)

\* re.sub(r'\s+', ' ', line): every run of whitespace becomes one space.
RECURSIVE CollapseWS(_)
CollapseWS(s) ==
    IF s = <<>> THEN <<>>
    ELSE IF Head(s) \in WS THEN <<" ">> \o CollapseWS(LStrip(s))
    ELSE <<Head(s)>> \o CollapseWS(Tail(s))

\* a < b for Python strings: code points compared left to right.
RECURSIVE StrLess(_, _)
StrLess(a, b) ==
    IF b = <<>> THEN FALSE
    ELSE IF a = <<>> THEN TRUE
    ELSE IF a[1] # b[1] THEN CharCode(a[1]) < CharCode(b[1])
    ELSE StrLess(Tail(a), Tail(b))

\* Insert one string into a sorted list, after its equals.
RECURSIVE Insert(_, _)
Insert(x, l) ==
    IF l = <<>> THEN <<x>>
    ELSE IF StrLess(x, Head(l)) THEN <<x>> \o l
    ELSE <<Head(l)>> \o Insert(x, Tail(l))

\* sorted(parts)
RECURSIVE Sorted(_)
Sorted(parts) ==
    IF parts = <<>> THEN <<>>
    ELSE Insert(parts[Len(parts)], Sorted(SubSeq(parts, 1, Len(parts) - 1)))

\* [x for x in l if keep]: the members of l that are in the set, in order.
RECURSIVE Filter(_, _)
Filter(l, keep) ==
    IF l = <<>> THEN <<>>
    ELSE (IF Head(l) \in keep THEN <<Head(l)>> ELSE <<>>) \o Filter(Tail(l), keep)

----------------------------------------------------------------------------
(* normalize, lines 33-74.                                                 *)

\* The addresses of _RX_HOSTS, in the order of its alternation.
HostsAddrs ==
    << <<"0", ".", "0", ".", "0", ".", "0">>,
       <<"1", "2", "7", ".", "0", ".", "0", ".", "1">>,
       <<":", ":", "1">>,
       <<":">>,
       <<":", ":">> >>

\* What one alternative of _RX_HOSTS captures on a line: the address, then
\* \s+ (greedy), then the group [^\s#]+ (greedy).  <<>> when it does not match.
HostsGroup(line, addr) ==
    IF ~StartsWith(line, addr) THEN <<>>
    ELSE LET rest == SubSeq(line, Len(addr) + 1, Len(line))
             w == Len(rest) - Len(LStrip(rest))
             tail == LStrip(rest)
             g == CHOOSE j \in 0..Len(tail) :
                     /\ \A i \in 1..j : tail[i] \notin WS \cup {"#"}
                     /\ (j = Len(tail) \/ tail[j + 1] \in WS \cup {"#"})
         IN IF w = 0 THEN <<>> ELSE SubSeq(tail, 1, g)

\* _RX_HOSTS.match(line): the group of the first alternative that matches,
\* <<>> for no match (the group of a match is never empty).
RxHosts(line) ==
    LET hits == {k \in 1..Len(HostsAddrs) : HostsGroup(line, HostsAddrs[k]) # <<>>}
    IN IF hits = {} THEN <<>>
       ELSE HostsGroup(line, HostsAddrs[CHOOSE k \in hits : \A m \in hits : k <= m])

\* The characters of [A-Za-z0-9.-] among those of the model.
HostChars == {"a", "b", "c", "d", "u", "v", "x", "A", "B", "0", "1", "2", "7", ".", "-"}

\* re.match(r'^[A-Za-z0-9.-]+$', tok) on a token without whitespace
HostLike(tok) == tok # <<>> /\ \A i \in 1..Len(tok) : tok[i] \in HostChars

\* f"||{domain}^"
DomainRule(domain) == <<"|", "|">> \o domain \o <<"^">>

\* A slip: the domain keeps the letter case of the line.
HostsBranchNoLower(group) ==
    LET domain == RStripDots(Strip(group))
    IN IF domain # <<>> THEN DomainRule(domain) ELSE <<>>

\* A slip: the trailing dots are kept.
HostsBranchKeepDot(group) ==
    LET domain == Lower(Strip(group))
    IN IF domain # <<>> THEN DomainRule(domain) ELSE <<>>

\* Lines 47-52: the hosts-pattern branch on the captured group.
HostsBranch(group) ==
    LET domain == RStripDots(Lower(Strip(group)))
    IN IF domain # <<>> THEN DomainRule(domain) ELSE <<>>

\* Line 55: the test of the generic two-token heuristic.
LooksLikeHosts(parts) ==
    Len(parts) >= 2 /\ Count(parts[1], ".") >= 1 /\ HostLike(parts[2])

\* Lines 57-58: the generic two-token branch; the domain is not tested.
GenericBranch(parts) == DomainRule(RStripDots(Lower(Strip(parts[2]))))

\* A slip: the options are left in the order of the line.
SortOptsKeep(opts_parts) == opts_parts

\* Line 71: sorted(opts_parts)
SortOpts(opts_parts) == Sorted(opts_parts)

\* Lines 66-72: the option block of a line with exactly one '$'.
CanonOptions(line) ==
    LET sp == SplitOn(line, "$")
        main == sp[1]
        opts == Strip(sp[2])
        raw == SplitOn(opts, ",")
        stripped == [i \in 1..Len(raw) |-> Strip(raw[i])]
        opts_parts == Filter(stripped, {stripped[i] : i \in 1..Len(stripped)} \ {<<>>})
    IN Strip(main) \o <<"$">> \o Join(SortOpts(opts_parts), <<",">>)

\* Lines 61-74: the native-rule path.
NativeBranch(line) ==
    LET l == Lower(CollapseWS(line))
    IN Strip(IF Count(l, "$") = 1 THEN CanonOptions(l) ELSE l)

\* normalize(line); <<>> is the discard value "".
normalize(raw) ==
    LET line == Strip(raw) IN
    IF line = <<>> THEN <<>>
    ELSE IF StartsWith(line, <<"!">>) \/ StartsWith(line, <<"[">>) THEN <<>>
    ELSE IF StartsWith(line, <<"#">>) THEN <<>>
    ELSE IF RxHosts(line) # <<>> THEN HostsBranch(RxHosts(line))
    ELSE IF LooksLikeHosts(Tokens(line)) THEN GenericBranch(Tokens(line))
    ELSE NativeBranch(line)

----------------------------------------------------------------------------
(* canonical_key, fetch and main, lines 76-130.                            *)

NL == <<"\n">>

\* HEAD, lines 13-19: four comment lines (the first carries the time of
\* the run) and an empty line; each comment is cut to '!' and a tag.
HEAD == << <<"!", "1">>, <<"!", "2">>, <<"!", "3">>, <<"!", "4">>, <<>> >>

\* The document an earlier run left in OUTFILE.
PrevFile == << <<"!", "0">>, <<>>, <<"|", "|", "x", "^">> >>

\* A weak digest: lines of equal length collide.
canonical_key_len(line) == <<"sha1", Len(line)>>

\* canonical_key, lines 76-79: the SHA-1 digest of the line, taken as
\* free of collisions: a value that stands for the line and nothing else.
canonical_key(line) == <<"sha1", line>>

\* str.splitlines() for the line end '\n'.
SplitLines(text) ==
    IF text = <<>> THEN <<>>
    ELSE LET parts == SplitOn(text, "\n")
         IN IF parts[Len(parts)] = <<>> THEN SubSeq(parts, 1, Len(parts) - 1)
            ELSE parts

\* A variant that drops the repeated URLs.
RECURSIVE LoadListUnique(_)
LoadListUnique(flines) ==
    IF flines = <<>> THEN <<>>
    ELSE LET front == LoadListUnique(SubSeq(flines, 1, Len(flines) - 1))
             l == Strip(flines[Len(flines)])
         IN IF l # <<>> /\ ~StartsWith(l, <<"#">>)
               /\ \A i \in 1..Len(front) : front[i] # l
            THEN Append(front, l) ELSE front

\* Line 84: the stripped lines of the file that are neither blank nor
\* comments, in the order of the file.
RECURSIVE LoadList(_)
LoadList(flines) ==
    IF flines = <<>> THEN <<>>
    ELSE LET l == Strip(Head(flines))
         IN (IF l # <<>> /\ ~StartsWith(l, <<"#">>) THEN <<l>> ELSE <<>>)
            \o LoadList(Tail(flines))

\* A slip: the key of an override is not remembered.
OverrideAppendNoMark(seenSet, lines, rule) ==
    IF canonical_key(rule) \notin seenSet
    THEN [seen |-> seenSet, out |-> Append(lines, rule)]
    ELSE [seen |-> seenSet, out |-> lines]

\* Lines 102-105: an override is appended unless its key was seen.
OverrideAppend(seenSet, lines, rule) ==
    IF canonical_key(rule) \notin seenSet
    THEN [seen |-> seenSet \cup {canonical_key(rule)}, out |-> Append(lines, rule)]
    ELSE [seen |-> seenSet, out |-> lines]

\* A slip: the key of a source line is not remembered.
DedupAppendNoMark(seenSet, lines, n) ==
    IF canonical_key(n) \in seenSet
    THEN [seen |-> seenSet, out |-> lines]
    ELSE [seen |-> seenSet, out |-> Append(lines, n)]

\* Lines 116-120: a source line is appended unless its key was seen.
DedupAppend(seenSet, lines, n) ==
    IF canonical_key(n) \in seenSet
    THEN [seen |-> seenSet, out |-> lines]
    ELSE [seen |-> seenSet \cup {canonical_key(n)}, out |-> Append(lines, n)]

\* The exceptions fetch catches, line 29.
Caught == {"HTTPError", "URLError"}

\* What urlopen and read can raise: HTTPError for an error status, URLError
\* for a failed connection, and TimeoutError or an HTTPException of
\* http.client, neither a URLError, from the response once connected.
Raised == {"HTTPError", "URLError", "TimeoutError", "HTTPException"}

\* fetch, lines 24-31, on what the network did: the text returned, or the
\* exception that leaves fetch.
fetch(resp) ==
    IF resp.kind = "ok" THEN [raised |-> "", text |-> resp.text]
    ELSE IF resp.kind \in Caught THEN [raised |-> "", text |-> <<>>]
    ELSE [raised |-> resp.kind, text |-> <<>>]

\* A variant in which a failed open empties the file.
WriteResultTrunc(outcome, prev, lines, k) ==
    IF outcome = "ok" THEN lines
    ELSE IF outcome = "open_fails" THEN <<>>
    ELSE SubSeq(lines, 1, k)

\* Lines 122-125: OUTFILE after the attempt to write.  data is the lines
\* joined by '\n' with a final '\n', so the file is kept as its lines.
\* open(OUTFILE, 'w') empties the file before anything is written: a write
\* that fails leaves the k lines that reached the disk.
WriteResult(outcome, prev, lines, k) ==
    IF outcome = "ok" THEN lines
    ELSE IF outcome = "open_fails" THEN prev
    ELSE SubSeq(lines, 1, k)

----------------------------------------------------------------------------
(* The specification of one run of main.                                   *)

MaxBodyLines == 2

\* The lines of sources.txt, each with its line end.
SrcFiles ==
    { [state |-> "missing", lines |-> <<>>],
      [state |-> "unreadable", lines |-> <<>>],
      [state |-> "ok", lines |-> <<>>],
      [state |-> "ok", lines |-> << <<"u", "\n">> >>],
      [state |-> "ok", lines |-> << <<"u", "\n">>, <<"u", "\n">> >>],
      [state |-> "ok", lines |-> << <<"#", "x", "\n">>, <<" ", "v", "\t", "\n">>,
                                    <<"\n">>, <<"u">> >>] }

\* The values of custom_overrides: the empty list of line 94, and lists an
\* operator writes there.
OverrideConfigs ==
    { <<>>,
      << <<"|", "|", "A", "B", "^">> >>,
      << <<"!", "x">>, <<"b", "$", "d", ",", "c">>, <<"b", "$", "c", ",", "d">> >> }

\* Raw lines of the fetched documents: two forms of one rule, and another.
RawPool ==
    { <<":", ":", "\t", "A", "b", ".">>,
      <<"|", "|", "a", "b", "^">>,
      <<"B", "$", "d", ",", "c">> }

\* The bodies a server can send: the lines of the pool joined by '\n', a
\* body with a comment line and a final '\n', and a body of one '\n'.
Texts ==
    {Join(ls, NL) : ls \in UNION {[1..k -> RawPool] : k \in 0..MaxBodyLines}}
        \cup { <<"!", "x">> \o NL \o <<"|", "|", "a", "b", "^">> \o NL, NL }

\* What the network does on one request.
Responses ==
    {[kind |-> "ok", text |-> t] : t \in Texts}
        \cup {[kind |-> e, text |-> <<>>] : e \in Raised}

MainInit ==
    /\ pc = "load" /\ status = "running"
    /\ srcfile \in SrcFiles
    /\ custom_overrides \in OverrideConfigs
    /\ sources = <<>> /\ oi = 1 /\ si = 1 /\ pending = <<>>
    /\ seen = {} /\ out_lines = <<>>
    /\ outfile = PrevFile
    /\ stderr = <<>> /\ fetchlog = <<>>
    /\ IdleNorm /\ IdleOpt

\* Lines 82-91: the source list is read; seen and out_lines are set up.
LoadSources ==
    /\ pc = "load"
    /\ IF srcfile.state = "missing"
       THEN /\ stderr' = Append(stderr, <<"sources.txt not found">>)
            /\ pc' = "done" /\ status' = "no_sources"
            /\ UNCHANGED <<sources, seen, out_lines>>
       ELSE IF srcfile.state = "unreadable"
       THEN /\ pc' = "done" /\ status' = "exception"
            /\ UNCHANGED <<sources, seen, out_lines, stderr>>
       ELSE /\ sources' = LoadList(srcfile.lines)
            /\ seen' = {}
            /\ out_lines' = HEAD
            /\ pc' = IF custom_overrides = <<>> THEN "sources" ELSE "overrides"
            /\ UNCHANGED <<status, stderr>>
    /\ UNCHANGED <<srcfile, custom_overrides, oi, si, pending, outfile, fetchlog>>

\* Lines 98-105: one turn of the loop over custom_overrides.
RegisterOverride ==
    /\ pc = "overrides" /\ oi <= Len(custom_overrides)
    /\ LET rule == normalize(custom_overrides[oi])
           upd == OverrideAppend(seen, out_lines, rule)
       IN IF rule = <<>>
          THEN UNCHANGED <<seen, out_lines>>
          ELSE seen' = upd.seen /\ out_lines' = upd.out
    /\ oi' = oi + 1
    /\ pc' = IF oi = Len(custom_overrides) THEN "sources" ELSE "overrides"
    /\ UNCHANGED <<status, srcfile, custom_overrides, sources, si, pending,
                   outfile, stderr, fetchlog>>

\* Lines 107-112: the next source is announced and fetched; an empty text
\* is skipped, an exception fetch does not catch ends main.
FetchSource ==
    /\ pc = "sources" /\ si <= Len(sources)
    /\ \E resp \in Responses :
          LET url == sources[si]
              got == fetch(resp)
              said == Append(stderr, <<"Fetching", url>>)
          IN /\ fetchlog' = Append(fetchlog,
                                   [url |-> url, kind |-> resp.kind, text |-> got.text])
             /\ IF got.raised # ""
                THEN /\ pc' = "done" /\ status' = "exception"
                     /\ stderr' = said
                     /\ UNCHANGED <<si, pending>>
                ELSE /\ stderr' = IF resp.kind \in Caught
                                  THEN Append(said, <<"Warning: failed to fetch", url>>)
                                  ELSE said
                     /\ IF got.text = <<>>
                        THEN si' = si + 1 /\ pc' = "sources" /\ UNCHANGED pending
                        ELSE /\ pending' = SplitLines(got.text)
                             /\ pc' = "lines" /\ UNCHANGED si
                     /\ UNCHANGED status
    /\ UNCHANGED <<srcfile, custom_overrides, sources, oi, seen, out_lines, outfile>>

\* Lines 112-120: one line of the current text.
ProcessLine ==
    /\ pc = "lines" /\ pending # <<>>
    /\ LET n == normalize(Head(pending))
           upd == DedupAppend(seen, out_lines, n)
       IN IF n = <<>>
          THEN UNCHANGED <<seen, out_lines>>
          ELSE seen' = upd.seen /\ out_lines' = upd.out
    /\ pending' = Tail(pending)
    /\ IF Len(pending) = 1
       THEN si' = si + 1 /\ pc' = "sources"
       ELSE UNCHANGED <<si, pc>>
    /\ UNCHANGED <<status, srcfile, custom_overrides, sources, oi, outfile,
                   stderr, fetchlog>>

\* Lines 122-130: the document is written, or the error is reported.
WriteOut ==
    /\ pc = "sources" /\ si > Len(sources)
    /\ \E outcome \in {"ok", "open_fails", "write_fails"} :
       \E k \in 0..(Len(out_lines) - 1) :
          /\ outfile' = WriteResult(outcome, outfile, out_lines, k)
          /\ IF outcome = "ok"
             THEN /\ status' = "wrote"
                  /\ stderr' = Append(stderr, <<"Wrote", Len(out_lines)>>)
             ELSE /\ status' = "write_error"
                  /\ stderr' = Append(stderr, <<"Error writing", outcome>>)
    /\ pc' = "done"
    /\ UNCHANGED <<srcfile, custom_overrides, sources, oi, si, pending, seen,
                   out_lines, fetchlog>>

Next ==
    \/ LoadSources /\ UNCHANGED <<normVars, optVars>>
    \/ RegisterOverride /\ UNCHANGED <<normVars, optVars>>
    \/ FetchSource /\ UNCHANGED <<normVars, optVars>>
    \/ ProcessLine /\ UNCHANGED <<normVars, optVars>>
    \/ WriteOut /\ UNCHANGED <<normVars, optVars>>

Spec == MainInit /\ [][Next]_vars

----------------------------------------------------------------------------
(* The specification of normalize applied to one line, once and again.     *)

MaxLineLen == 4

\* Line starts that reach the comment tests and the hosts pattern.
LinePrefixes ==
    { <<>>, <<"!">>, <<"[">>, <<"\t">>, <<"$">>,
      HostsAddrs[1], HostsAddrs[2], HostsAddrs[3], HostsAddrs[4], HostsAddrs[5] }

LineChars == {" ", "a", "B", ".", "$", ",", "#"}

LineTails == UNION {[1..k -> LineChars] : k \in 0..MaxLineLen}

NormInit ==
    /\ nline \in {p \o t : p \in LinePrefixes, t \in LineTails}
    /\ n1 = <<>> /\ n2 = <<>> /\ npc = "first"
    /\ IdleMain /\ IdleOpt

NormFirst ==
    /\ npc = "first"
    /\ n1' = normalize(nline)
    /\ npc' = "second"
    /\ UNCHANGED <<nline, n2>>

NormSecond ==
    /\ npc = "second"
    /\ n2' = normalize(n1)
    /\ npc' = "done"
    /\ UNCHANGED <<nline, n1>>

NormNext ==
    \/ NormFirst /\ UNCHANGED <<mainVars, optVars>>
    \/ NormSecond /\ UNCHANGED <<mainVars, optVars>>

SpecNorm == NormInit /\ [][NormNext]_vars

----------------------------------------------------------------------------
(* The specification of normalize applied to two orderings of the same     *)
(* option fragments after one rule body.                                   *)

MaxBodyLen == 2
MaxFrags == 2

BodyChars == {"a", "B", ".", " ", "$"}

FragPool == { <<"a">>, <<"B">>, <<"b", " ", "c">>, <<" ", "a">>, <<>> }

\* The fragments in the order a permutation gives them.
Permuted(frags, perm) == [i \in 1..Len(frags) |-> frags[perm[i]]]

\* The line made of a body, a separator and comma-separated fragments.
OptLine(body, sep, frags) == body \o sep \o Join(frags, <<",">>)

OptInit ==
    /\ obody \in UNION {[1..k -> BodyChars] : k \in 0..MaxBodyLen}
    /\ osep \in {<<"$">>, <<>>}
    /\ ofrags \in UNION {[1..k -> FragPool] : k \in 1..MaxFrags}
    /\ operm \in {p \in [1..Len(ofrags) -> 1..Len(ofrags)] :
                     \A i, j \in 1..Len(ofrags) : p[i] = p[j] => i = j}
    /\ res1 = <<>> /\ res2 = <<>> /\ opc = "first"
    /\ IdleMain /\ IdleNorm

OptFirst ==
    /\ opc = "first"
    /\ res1' = normalize(OptLine(obody, osep, ofrags))
    /\ opc' = "second"
    /\ UNCHANGED <<obody, osep, ofrags, operm, res2>>

OptSecond ==
    /\ opc = "second"
    /\ res2' = normalize(OptLine(obody, osep, Permuted(ofrags, operm)))
    /\ opc' = "done"
    /\ UNCHANGED <<obody, osep, ofrags, operm, res1>>

OptNext ==
    \/ OptFirst /\ UNCHANGED <<mainVars, normVars>>
    \/ OptSecond /\ UNCHANGED <<mainVars, normVars>>

SpecOpts == OptInit /\ [][OptNext]_vars

----------------------------------------------------------------------------
(* Properties of one run of main (Spec).                                   *)

Last(q) == q[Len(q)]

\* The raw lines of the fetched texts, in the order of the fetches, each with
\* the index of its source.
RECURSIVE LogLines(_)
LogLines(log) ==
    IF log = <<>> THEN <<>>
    ELSE LET ls == SplitLines(Last(log).text)
         IN LogLines(SubSeq(log, 1, Len(log) - 1))
              \o [i \in 1..Len(ls) |-> [src |-> Len(log), raw |-> ls[i]]]

\* The source lines main has processed so far.
Processed == SubSeq(LogLines(fetchlog), 1, Len(LogLines(fetchlog)) - Len(pending))

\* The raw lines main has processed so far, overrides first.
Consumed ==
    SubSeq(custom_overrides, 1, oi - 1) \o [i \in 1..Len(Processed) |-> Processed[i].raw]

\* The normalized forms of the lines that are not discarded.
RulesOf(raws) ==
    SelectSeq([i \in 1..Len(raws) |-> normalize(raws[i])], LAMBDA t : t # <<>>)

\* The first occurrences of the members of a sequence, in order.
RECURSIVE FirstOcc(_)
FirstOcc(q) ==
    IF q = <<>> THEN <<>>
    ELSE LET front == FirstOcc(SubSeq(q, 1, Len(q) - 1))
         IN IF \E i \in 1..Len(front) : front[i] = Last(q) THEN front
            ELSE Append(front, Last(q))

\* The source list was read and the output is being assembled.
Loaded == srcfile.state = "ok" /\ pc # "load"

RulePositions(doc) == (Len(HEAD) + 1)..Len(doc)

\* C1: no rule line is in the output more than once, whatever the sources
\* and overrides were: the rule lines assembled so far are pairwise
\* different, so are their fingerprints, and so are the rule lines of the
\* written document.
C1_NoRuleTwice ==
    Loaded =>
        LET raws == Consumed
            texts == {normalize(raws[i]) : i \in 1..Len(raws)}
        IN
        /\ \A i, j \in RulePositions(out_lines) :
              i # j => /\ out_lines[i] # out_lines[j]
                       /\ canonical_key(out_lines[i]) # canonical_key(out_lines[j])
        /\ \A t \in texts :
              Cardinality({p \in 1..Len(out_lines) : out_lines[p] = t}) <= 1
        /\ (status = "wrote" =>
              \A i, j \in RulePositions(outfile) : i # j => outfile[i] # outfile[j])

\* C1: a written run in which two sources sent different raw lines of one
\* normalized form.
C1_Witness ==
    /\ status = "wrote"
    /\ \E i, j \in 1..Len(Processed) :
          /\ Processed[i].src < Processed[j].src
          /\ Processed[i].raw # Processed[j].raw
          /\ normalize(Processed[i].raw) = normalize(Processed[j].raw)
          /\ normalize(Processed[i].raw) # <<>>

\* C2, as claimed: no failure of a fetch aborts the run: every source of
\* the list is fetched, a failed fetch yields the empty text, and a run that
\* writes, writes the header and the rules of the sources that succeeded.
C2_FetchFailureNeverAborts ==
    (pc = "done" /\ srcfile.state = "ok") =>
        /\ status \in {"wrote", "write_error"}
        /\ Len(fetchlog) = Len(sources)
        /\ \A i \in 1..Len(fetchlog) : fetchlog[i].kind # "ok" => fetchlog[i].text = <<>>
        /\ (status = "wrote" =>
              outfile = HEAD \o FirstOcc(RulesOf(
                  custom_overrides
                    \o [i \in 1..Len(LogLines(fetchlog)) |-> LogLines(fetchlog)[i].raw])))

\* C3: the rule lines of the output are the first occurrences of the kept
\* normalized lines in the order they were processed: overrides, then the
\* sources in list order, each in the order of its document.
C3_FirstSeenOrder ==
    Loaded =>
        LET done == Processed IN
        /\ out_lines = HEAD \o FirstOcc(RulesOf(
              SubSeq(custom_overrides, 1, oi - 1)
                \o [i \in 1..Len(done) |-> done[i].raw]))
        /\ \A i, j \in 1..Len(done) : i < j => done[i].src <= done[j].src
        /\ (status = "wrote" => outfile = out_lines)

\* C3: a written run of two sources, the first bringing two rules, the
\* second repeating one of them in another raw form.
C3_Witness ==
    /\ status = "wrote" /\ Len(fetchlog) = 2
    /\ \E i, m, j \in 1..Len(Processed) :
          /\ Processed[i].src = 1 /\ Processed[m].src = 1 /\ Processed[j].src = 2
          /\ normalize(Processed[i].raw) # <<>> /\ normalize(Processed[m].raw) # <<>>
          /\ normalize(Processed[i].raw) # normalize(Processed[m].raw)
          /\ normalize(Processed[j].raw) = normalize(Processed[m].raw)
          /\ Processed[j].raw # Processed[m].raw
    /\ Len(out_lines) = Len(HEAD) + 2

\* The normalized texts of the configured overrides.
OverrideRules ==
    {normalize(custom_overrides[i]) : i \in 1..Len(custom_overrides)} \ {<<>>}

\* C7: once the overrides are registered, their fingerprints are in the
\* set before any fetch; each override text is in the output exactly once,
\* in the block right after the header; and no line after that block is an
\* override text, whatever the sources send.
C7_OverridesFirst ==
    (Loaded /\ pc # "overrides") =>
        LET rules == OverrideRules
            n == Cardinality(rules)
        IN
        /\ \A t \in rules : canonical_key(t) \in seen
        /\ Len(out_lines) >= Len(HEAD) + n
        /\ \A p \in 1..Len(out_lines) :
              out_lines[p] \in rules <=> (Len(HEAD) < p /\ p <= Len(HEAD) + n)
        /\ \A t \in rules :
              Cardinality({p \in 1..Len(out_lines) : out_lines[p] = t}) = 1

\* C7: a written run in which a source sent a line of the same normalized
\* form as an override, and another rule besides.
C7_Witness ==
    /\ status = "wrote"
    /\ \E i \in 1..Len(Processed), o \in 1..Len(custom_overrides) :
          /\ normalize(Processed[i].raw) = normalize(custom_overrides[o])
          /\ normalize(Processed[i].raw) # <<>>
          /\ Processed[i].raw # custom_overrides[o]
    /\ Len(out_lines) > Len(HEAD) + Cardinality(OverrideRules)

\* The stripped lines of the file that are neither blank nor comments.
Kept(flines) ==
    SelectSeq([i \in 1..Len(flines) |-> Strip(flines[i])],
              LAMBDA l : l # <<>> /\ l[1] # "#")

\* The URLs main announced on the diagnostic stream, in order.
Announced ==
    LET f == SelectSeq(stderr, LAMBDA m : m[1] = "Fetching")
    IN [i \in 1..Len(f) |-> f[i][2]]

\* C8, as claimed: the source list is the file without blanks, comments
\* and duplicate URLs, and a run that reaches the write has fetched each
\* distinct URL exactly once.
C8_SourcesUnique ==
    Loaded =>
        /\ sources = FirstOcc(Kept(srcfile.lines))
        /\ (status \in {"wrote", "write_error"} =>
              \A i \in 1..Len(sources) :
                  Cardinality({f \in 1..Len(fetchlog) : fetchlog[f].url = sources[i]}) = 1)

\* C8, amended: the source list is the file without blanks and comments,
\* duplicates kept; the fetches follow the list entry by entry, and a run
\* that reaches the write has fetched every entry exactly once, failed or not.
C8_SourcesInFileOrder ==
    Loaded =>
        /\ sources = Kept(srcfile.lines)
        /\ Len(fetchlog) <= Len(sources)
        /\ \A i \in 1..Len(fetchlog) : fetchlog[i].url = sources[i]
        /\ Announced = [i \in 1..Len(fetchlog) |-> sources[i]]
        /\ (status \in {"wrote", "write_error"} => Len(fetchlog) = Len(sources))

\* C8: a written run over a list that names one URL twice, whose first
\* fetch failed and was not tried again.
C8_Witness ==
    /\ status = "wrote" /\ Len(sources) = 2 /\ sources[1] = sources[2]
    /\ Len(fetchlog) = 2 /\ fetchlog[1].kind = "HTTPError" /\ fetchlog[2].kind = "ok"
    /\ Len(srcfile.lines) = 2

\* C9, as claimed: with the source list missing or the output not
\* writable, the error is reported and the earlier output file is unchanged.
C9_OutputUntouchedOnError ==
    status \in {"no_sources", "write_error"} =>
        /\ pc = "done" /\ stderr # <<>>
        /\ Last(stderr)[1] \in {"sources.txt not found", "Error writing"}
        /\ outfile = PrevFile

\* C9, amended: with the source list missing, or the open of the output
\* failing, the error is reported and the earlier file is unchanged; when
\* the write fails after the open, the error is reported and the file is
\* left emptied or holding a proper prefix of the new document.
C9_OutputUntouchedUnlessWriteFails ==
    /\ status = "no_sources" =>
          /\ pc = "done" /\ Last(stderr) = <<"sources.txt not found">>
          /\ fetchlog = <<>> /\ outfile = PrevFile
    /\ status = "write_error" =>
          /\ pc = "done" /\ Last(stderr)[1] = "Error writing"
          /\ (Last(stderr)[2] = "open_fails" => outfile = PrevFile)
          /\ (Last(stderr)[2] = "write_fails" =>
                /\ outfile # PrevFile /\ Len(outfile) < Len(out_lines)
                /\ outfile = SubSeq(out_lines, 1, Len(outfile)))

\* C9: a run that assembled rules and could not open the output file.
C9_Witness ==
    /\ status = "write_error" /\ Last(stderr) = <<"Error writing", "open_fails">>
    /\ Len(out_lines) > Len(HEAD) /\ outfile = PrevFile

----------------------------------------------------------------------------
(* Properties of normalize on one line (SpecNorm).                         *)

\* The address of the hosts pattern a line starts with, when whitespace and
\* then at least one token follow it; <<>> when there is none.
AddrOf(line) ==
    LET ok == {k \in 1..Len(HostsAddrs) :
                  /\ StartsWith(line, HostsAddrs[k])
                  /\ Len(line) > Len(HostsAddrs[k])
                  /\ line[Len(HostsAddrs[k]) + 1] \in WS
                  /\ Tokens(SubSeq(line, Len(HostsAddrs[k]) + 1, Len(line))) # <<>>}
    IN IF ok = {} THEN <<>> ELSE HostsAddrs[CHOOSE k \in ok : TRUE]

\* The first whitespace-separated token after the address of a hosts line.
TokenAfterAddr(line) ==
    Tokens(SubSeq(line, Len(AddrOf(line)) + 1, Len(line)))[1]

\* '||d^' for a non-empty d, the discard value otherwise.
RuleOrDiscard(d) == IF d # <<>> THEN <<"|", "|">> \o d \o <<"^">> ELSE <<>>

C6_HostsFirstToken ==
    (npc # "first" /\ AddrOf(Strip(nline)) # <<>>) =>
        n1 = RuleOrDiscard(RStripDots(Lower(TokenAfterAddr(Strip(nline)))))

\* C6, amended: the domain is the first token after the address cut at its
\* first '#', lower-cased and without its trailing dots; an empty domain
\* discards the line, also where the two-token heuristic would keep it; a
\* token that begins with '#' makes the line no hosts line: it is kept as
\* a native rule and still begins with the address.
C6_HostsTokenUpToHash ==
    (npc # "first" /\ AddrOf(Strip(nline)) # <<>>) =>
        LET tok == TokenAfterAddr(Strip(nline))
            cut == SplitOn(tok, "#")[1]
        IN IF cut # <<>>
           THEN n1 = RuleOrDiscard(RStripDots(Lower(cut)))
           ELSE n1 # <<>> /\ StartsWith(n1, AddrOf(Strip(nline)))

\* C6: a hosts line whose token holds an inline '#' became a domain rule.
C6_Witness ==
    /\ npc = "done" /\ AddrOf(Strip(nline)) # <<>>
    /\ Count(TokenAfterAddr(Strip(nline)), "#") >= 1
    /\ TokenAfterAddr(Strip(nline))[1] # "#"
    /\ StartsWith(n1, <<"|", "|">>) /\ Len(n1) > 3

\* C10, as claimed: normalize never returns the rule '||^' with an empty
\* domain.
C10_NoEmptyDomainRule == npc # "first" => n1 # <<"|", "|", "^">>

----------------------------------------------------------------------------
(* Properties of normalize on two option orderings (SpecOpts).             *)

\* The two lines: the fragments as given, and as permuted.
Line1 == OptLine(obody, osep, ofrags)
Line2 == OptLine(obody, osep, Permuted(ofrags, operm))

\* The fragments follow the only '$' of the line.
SingleDollar == osep = <<"$">> /\ Count(obody, "$") = 0

\* The whitespace-collapsed, lower-cased, trimmed line.
Plain(l) == Strip(Lower(CollapseWS(Strip(l))))

\* The body, '$', and the sorted non-empty fragments joined by ','.
Canon(body, frags) ==
    LET clean == [i \in 1..Len(frags) |-> Plain(frags[i])]
        kept == SelectSeq(clean, LAMBDA f : f # <<>>)
    IN Plain(body) \o <<"$">> \o Join(Sorted(kept), <<",">>)

\* The line reaches the native-rule path: it is no blank, no comment, no
\* match of the hosts pattern and no hit of the two-token heuristic.
ReachesNative(l) ==
    LET t == Strip(l) IN
    /\ t # <<>> /\ t[1] \notin {"!", "[", "#"}
    /\ RxHosts(t) = <<>>
    /\ ~LooksLikeHosts(Tokens(t))

\* C5, as claimed: two orderings of the same fragments after a single '$'
\* always normalize to the same string (the body, '$' and the sorted
\* fragments when the line is a native rule); a native line with no '$' or
\* several is returned collapsed and lower-cased.
C5_OrderNeverMatters ==
    opc = "done" =>
        /\ (SingleDollar =>
                /\ res1 = res2
                /\ (ReachesNative(Line1) => res1 = Canon(obody, ofrags)))
        /\ (Count(Line1, "$") # 1 /\ ReachesNative(Line1) => res1 = Plain(Line1))

\* C5, amended: the same, for lines that reach the native-rule path; a
\* reordering may move a line into or out of the two-token heuristic.
C5_OrderIrrelevantOnNativePath ==
    opc = "done" =>
        /\ (SingleDollar /\ ReachesNative(Line1) /\ ReachesNative(Line2)
                => res1 = res2 /\ res1 = Canon(obody, ofrags))
        /\ (Count(Line1, "$") # 1 /\ ReachesNative(Line1) => res1 = Plain(Line1))

\* C5: two different orderings of unsorted fragments, both on the native
\* path, normalized to one string.
C5_Witness ==
    /\ opc = "done" /\ SingleDollar
    /\ ReachesNative(Line1) /\ ReachesNative(Line2)
    /\ Len(ofrags) = 2 /\ ofrags[1] # <<>> /\ ofrags[2] # <<>>
    /\ Line1 # Line2 /\ res1 # Plain(Line1) /\ res2 = res1 /\ obody # <<>>

====
